---- MODULE Spec2Model ----
(***************************************************************************)
(* Meal record manager (managers/meal_manager.py), its SQLAlchemy record   *)
(* store (meal_repository.py, database.py), the pydantic schemas           *)
(* (schemas/meal_schemas.py) and the Gemini nutrition adapter              *)
(* (gemini_nutrition.py), as a state machine.                              *)
(*                                                                         *)
(* Python values are records [kind, num, text]; dicts are TLA+ functions   *)
(* over their keys; strings that the code trims are sequences of           *)
(* one-character strings; exceptions are records [type, msg].              *)
(***************************************************************************)
EXTENDS Integers, Sequences, FiniteSets, TLC

\* ------------------------------------------------------------------ bounds
\* number of Store.create attempts explored (each takes a fresh rowid / uuid)
MaxCreates == 2
\* largest reading of the clock datetime.utcnow()
MaxTime == 1
\* number of manager calls explored in one run
MaxCalls == 2

\* ------------------------------------------------------------ python values
None == [kind |-> "none", num |-> 0, text |-> ""]
Float(n) == [kind |-> "float", num |-> n, text |-> ""]
Str(s) == [kind |-> "str", num |-> 0, text |-> s]

\* dict.get(key) with the default None
Get(d, k) == IF k \in DOMAIN d THEN d[k] ELSE None

\* {**d1, **d2}: the keys of both, the later dict winning
Merge(d1, d2) ==
    [k \in (DOMAIN d1) \cup (DOMAIN d2) |-> IF k \in DOMAIN d2 THEN d2[k] ELSE d1[k]]

\* float(text): the numeric-looking strings of the model and their values
NumericText == {"12"}
ParseFloat(s) == CASE s = "12" -> 12 [] OTHER -> 0

\* ---------------------------------------------------------------- str.strip
IsSpace(c) == c \in {" ", "\t", "\n"}

RECURSIVE lstrip(_)
lstrip(s) == IF s # <<>> /\ IsSpace(Head(s)) THEN lstrip(Tail(s)) ELSE s

RECURSIVE rstrip(_)
rstrip(s) ==
    IF s # <<>> /\ IsSpace(s[Len(s)]) THEN rstrip(SubSeq(s, 1, Len(s) - 1)) ELSE s

strip(s) == rstrip(lstrip(s))

\* --------------------------------------------------------------- exceptions
\* str(e) is msg followed by the parts of detail: the text an f-string put
\* after the fixed words of the message
NoExc == [type |-> "", msg |-> "", detail |-> <<>>]
Exc(t, m) == [type |-> t, msg |-> m, detail |-> <<>>]

\* pydantic's ValidationError is a subclass of ValueError
IsValueError(e) == e.type \in {"ValueError", "ValidationError"}

\* ------------------------------------------------------------------ schemas
NutrientFields ==
    {"calories", "protein", "fats", "carbohydrates", "fiber", "sugar", "sodium"}

NameMinLength == 1
NameMaxLength == 200

\* Field(..., ge=0, le=...) of MealBase
FieldMax(k) ==
    CASE k = "calories" -> 5000
      [] k = "protein" -> 200
      [] k = "fats" -> 200
      [] k = "carbohydrates" -> 500
      [] k = "fiber" -> 100
      [] k = "sugar" -> 200
      [] k = "sodium" -> 5000

\* Optional[float] in pydantic's lax mode: None, a number, or a numeric string
FloatOk(v) ==
    \/ v.kind \in {"none", "float"}
    \/ v.kind = "str" /\ v.text \in NumericText

ToFloat(v) == IF v.kind = "str" THEN Float(ParseFloat(v.text)) ELSE v

InRange(k, v) == v.kind = "none" \/ (v.kind = "float" /\ v.num >= 0 /\ v.num <= FieldMax(k))

\* MealCreate(name=...): min_length / max_length of the name
MealCreateValid(name) == Len(name) >= NameMinLength /\ Len(name) <= NameMaxLength

\* Meal.from_orm(db_meal) validates the row: name length and nutrient ranges
MealValid(row) ==
    /\ Len(row.name) >= NameMinLength
    /\ Len(row.name) <= NameMaxLength
    /\ \A k \in NutrientFields : FloatOk(row[k]) /\ InRange(k, ToFloat(row[k]))

\* ------------------------------------------------- nutrition adapter (Gemini)
\* The external text is a sequence of tokens: a code fence "```json", a bare
\* fence "```", prose, or one JSON document.
EmptyDict == [k \in {} |-> None]
NoJson == [jtype |-> "none", obj |-> EmptyDict]
JsonObject(d) == [jtype |-> "object", obj |-> d]
JsonArray == [jtype |-> "array", obj |-> EmptyDict]
FenceJson == [tok |-> "fence_json", val |-> NoJson]
Fence == [tok |-> "fence", val |-> NoJson]
Prose == [tok |-> "prose", val |-> NoJson]
Json(v) == [tok |-> "json", val |-> v]

RECURSIVE Without(_, _)
Without(text, toks) ==
    IF text = <<>> THEN <<>>
    ELSE IF Head(text).tok \in toks THEN Without(Tail(text), toks)
    ELSE <<Head(text)>> \o Without(Tail(text), toks)

\* after replace('```', '') a later "```json" marker leaves the word json
RECURSIVE FenceJsonToProse(_)
FenceJsonToProse(text) ==
    IF text = <<>> THEN <<>>
    ELSE <<IF Head(text).tok = "fence_json" THEN Prose ELSE Head(text)>>
         \o FenceJsonToProse(Tail(text))

\* the markdown clean-up of analyze_meal_nutrition
StripFences(text) ==
    IF text # <<>> /\ Head(text).tok = "fence_json"
    THEN Without(text, {"fence_json", "fence"})
    ELSE IF text # <<>> /\ Head(text).tok = "fence"
    THEN Without(FenceJsonToProse(text), {"fence"})
    ELSE text

\* json.loads succeeds on exactly one JSON document
JsonLoadsOk(text) == Len(text) = 1 /\ text[1].tok = "json"

\* str(json.JSONDecodeError): what went wrong and where, not the document
JSONDecodeErrorStr(text) ==
    IF text # <<>> /\ Head(text).tok = "json" THEN "Extra data" ELSE "Expecting value"

\* raise Exception(f"Invalid JSON response from Gemini: {str(e)}")
InvalidJson(text) ==
    [type |-> "Exception", msg |-> "Invalid JSON response from Gemini",
     detail |-> <<JSONDecodeErrorStr(text)>>]

\* NutritionInfo(**data): a mapping whose nutrient values are all Optional[float]
NutritionInfoOk(val) ==
    /\ val.jtype = "object"
    /\ \A k \in NutrientFields \cap DOMAIN val.obj : FloatOk(val.obj[k])

\* nutrition_info.model_dump(): the seven fields, unknown keys ignored
ModelDump(d) == [k \in NutrientFields |-> ToFloat(Get(d, k))]

\* the except branch: data.get(key) for the seven keys, values as received
LenientExtract(d) == [k \in NutrientFields |-> Get(d, k)]

validate_nutrition_data(val) ==
    IF NutritionInfoOk(val) THEN [exc |-> NoExc, data |-> ModelDump(val.obj)]
    ELSE IF val.jtype = "object" THEN [exc |-> NoExc, data |-> LenientExtract(val.obj)]
    ELSE [exc |-> Exc("AttributeError", "object has no attribute 'get'"), data |-> EmptyDict]

\* GeminiNutritionServiceSync.analyze_meal_nutrition; response is the outcome
\* of model.generate_content: [raises, text]
analyze_meal_nutrition(response) ==
    IF response.raises
    THEN [exc |-> Exc("TransportError", "generate_content failed"), data |-> EmptyDict]
    ELSE IF response.text = <<>>
    THEN [exc |-> Exc("Exception", "Empty response from Gemini API"), data |-> EmptyDict]
    ELSE LET response_text == StripFences(response.text)
         IN  IF ~JsonLoadsOk(response_text)
             THEN [exc |-> InvalidJson(response_text), data |-> EmptyDict]
             ELSE validate_nutrition_data(response_text[1].val)

\* ------------------------------------------------------ record store (MealDB)
\* A row of table meals; rowid is the engine's hidden row identity, which no
\* statement of the repository changes.
Columns == {"id", "name", "created_at", "updated_at"} \cup NutrientFields

\* the bind processor of a Float column: float(value), None kept
BindOk(d) == \A k \in NutrientFields \cap DOMAIN d : FloatOk(d[k])

NewRow(rowid, d, now) ==
    [k \in Columns \cup {"rowid"} |->
        CASE k = "rowid" -> rowid
          [] k \in {"created_at", "updated_at"} -> IF k \in DOMAIN d THEN d[k] ELSE now
          [] k \in NutrientFields -> ToFloat(Get(d, k))
          [] OTHER -> d[k]]

Lookup(st, id) == {r \in st : r.id = id}

\* an id generator that repeats itself
Uuid4Repeating(seq) == 1

\* uuid.uuid4(): an identifier no record has had; the n-th create draws n
Uuid4(seq) == seq

\* SQLAlchemyMealRepository.create_meal
StoreCreate(st, meal_data, seq, now, dbFails) ==
    LET data == IF "id" \in DOMAIN meal_data THEN meal_data
                ELSE Merge(meal_data, [id |-> Uuid4(seq)])
        fail(e) == [exc |-> e, result |-> <<>>, store |-> st]
    IN  IF ~(DOMAIN data \subseteq Columns)
        THEN fail(Exc("TypeError", "invalid keyword argument for MealDB"))
        ELSE IF ~BindOk(data)
        THEN fail(Exc("StatementError", "could not convert to float"))
        ELSE IF dbFails
        THEN fail(Exc("OperationalError", "database error"))
        ELSE IF "name" \notin DOMAIN data
        THEN fail(Exc("IntegrityError", "NOT NULL constraint failed: meals.name"))
        ELSE IF Lookup(st, data.id) # {}
        THEN fail(Exc("IntegrityError", "UNIQUE constraint failed: meals.id"))
        ELSE LET db_meal == NewRow(seq, data, now)
             IN  [exc |-> IF MealValid(db_meal) THEN NoExc
                          ELSE Exc("ValidationError", "validation error for Meal"),
                  result |-> IF MealValid(db_meal) THEN <<db_meal>> ELSE <<>>,
                  store |-> st \cup {db_meal}]

\* a replacing update: a column the caller did not supply is reset
ApplyFieldsReplacing(db_meal, meal_data, now) ==
    [k \in DOMAIN db_meal |->
        IF k = "updated_at" THEN now
        ELSE IF k \in Columns \cap DOMAIN meal_data
        THEN (IF k \in NutrientFields THEN ToFloat(meal_data[k]) ELSE meal_data[k])
        ELSE IF k \in NutrientFields THEN None
        ELSE db_meal[k]]

\* setattr for every key the mapped class has, then updated_at = utcnow()
ApplyFields(db_meal, meal_data, now) ==
    [k \in DOMAIN db_meal |->
        IF k = "updated_at" THEN now
        ELSE IF k \in Columns \cap DOMAIN meal_data
        THEN (IF k \in NutrientFields THEN ToFloat(meal_data[k]) ELSE meal_data[k])
        ELSE db_meal[k]]

\* SQLAlchemyMealRepository.update_meal
StoreUpdate(st, meal_id, meal_data, now, dbFails) ==
    LET found == Lookup(st, meal_id)
        fail(e) == [exc |-> e, result |-> <<>>, store |-> st]
    IN  IF found = {} THEN [exc |-> NoExc, result |-> <<>>, store |-> st]
        ELSE LET old == CHOOSE r \in found : TRUE
                 db_meal == ApplyFields(old, meal_data, now)
             IN  IF ~BindOk(meal_data)
                 THEN fail(Exc("StatementError", "could not convert to float"))
                 ELSE IF dbFails
                 THEN fail(Exc("OperationalError", "database error"))
                 ELSE IF db_meal.id # old.id /\ Lookup(st, db_meal.id) # {}
                 THEN fail(Exc("IntegrityError", "UNIQUE constraint failed: meals.id"))
                 ELSE [exc |-> IF MealValid(db_meal) THEN NoExc
                               ELSE Exc("ValidationError", "validation error for Meal"),
                       result |-> IF MealValid(db_meal) THEN <<db_meal>> ELSE <<>>,
                       store |-> (st \ {old}) \cup {db_meal}]

\* a delete whose query has lost its filter: the first row goes
StoreDeleteUnfiltered(st, meal_id, dbFails) ==
    IF st = {} THEN [exc |-> NoExc, deleted |-> FALSE, store |-> st]
    ELSE [exc |-> NoExc, deleted |-> TRUE, store |-> st \ {CHOOSE r \in st : TRUE}]

\* SQLAlchemyMealRepository.delete_meal
StoreDelete(st, meal_id, dbFails) ==
    LET found == Lookup(st, meal_id)
    IN  IF found = {} THEN [exc |-> NoExc, deleted |-> FALSE, store |-> st]
        ELSE IF dbFails
        THEN [exc |-> Exc("OperationalError", "database error"), deleted |-> FALSE,
              store |-> st]
        ELSE [exc |-> NoExc, deleted |-> TRUE, store |-> st \ found]

\* SQLAlchemyMealRepository.get_meal_by_id
StoreGet(st, meal_id, dbFails) ==
    LET found == Lookup(st, meal_id)
    IN  IF dbFails THEN [exc |-> Exc("OperationalError", "database error"), result |-> <<>>]
        ELSE IF found = {} THEN [exc |-> NoExc, result |-> <<>>]
        ELSE LET db_meal == CHOOSE r \in found : TRUE
             IN  IF MealValid(db_meal) THEN [exc |-> NoExc, result |-> <<db_meal>>]
                 ELSE [exc |-> Exc("ValidationError", "validation error for Meal"),
                       result |-> <<>>]

\* ORDER BY created_at DESC: the rows in an order the engine may return
IsSortedDesc(rows) ==
    \A i \in 1..Len(rows) : \A j \in 1..Len(rows) :
        i < j => rows[i].created_at >= rows[j].created_at

OrderByCreatedAtDesc(st) ==
    {rows \in [1..Cardinality(st) -> st] :
        /\ \A r \in st : \E i \in 1..Cardinality(st) : rows[i] = r
        /\ IsSortedDesc(rows)}

\* SQLAlchemyMealRepository.get_all_meals, db_meals being the query's rows
StoreGetAll(db_meals, dbFails) ==
    IF dbFails THEN [exc |-> Exc("OperationalError", "database error"), result |-> <<>>]
    ELSE IF \E i \in 1..Len(db_meals) : ~MealValid(db_meals[i])
    THEN [exc |-> Exc("ValidationError", "validation error for Meal"), result |-> <<>>]
    ELSE [exc |-> NoExc, result |-> db_meals]

\* ------------------------------------------------------------- meal manager
\* the constructor's failure not caught: a key alone makes a service
initialize_nutrition_service_key_only(api_key, ctorRaises) == api_key # ""

\* MealManager._initialize_nutrition_service: TRUE when a service object was
\* built (nutrition_service is not None)
initialize_nutrition_service(api_key, ctorRaises) ==
    IF api_key = "" THEN FALSE
    ELSE IF ctorRaises THEN FALSE
    ELSE TRUE

\* MealManager.is_nutrition_service_available
is_nutrition_service_available(nutrition_service) == nutrition_service

\* the guard left out: the manager goes on to the analysis without a service
ServiceNeverMissing(nutrition_service) == FALSE

\* the guard "if not self.nutrition_service"
ServiceMissing(nutrition_service) == ~nutrition_service

\* a bare "raise" in place of the wrapping exception
AnalysisReraised(e) == e

\* raise Exception(f"Failed to analyze meal nutrition: {str(e)}")
AnalysisFailed(e) ==
    [type |-> "Exception", msg |-> "Failed to analyze meal nutrition",
     detail |-> <<e.msg>> \o e.detail]

\* the except branch returning an all-None estimate instead of raising
analyze_meal_nutrition_swallowed(nutrition_service, response) ==
    IF ~nutrition_service
    THEN [exc |-> NoExc, data |-> [k \in NutrientFields |-> None], called |-> FALSE]
    ELSE LET r == analyze_meal_nutrition(response)
         IN  IF r.exc # NoExc
             THEN [exc |-> NoExc, data |-> [k \in NutrientFields |-> None], called |-> TRUE]
             ELSE [exc |-> NoExc, data |-> r.data, called |-> TRUE]

\* MealManager._analyze_meal_nutrition; called tells whether the external
\* call generate_content was made
analyze_meal_nutrition_wrapped(nutrition_service, response) ==
    IF ~nutrition_service
    THEN [exc |-> AnalysisFailed(Exc("AttributeError", "'NoneType' object has no attribute")),
          data |-> EmptyDict, called |-> FALSE]
    ELSE LET r == analyze_meal_nutrition(response)
         IN  IF r.exc # NoExc
             THEN [exc |-> AnalysisFailed(r.exc), data |-> EmptyDict, called |-> TRUE]
             ELSE [exc |-> NoExc, data |-> r.data, called |-> TRUE]

\* the payload built without unpacking the nutrition data
MealDbDataNameOnly(meal_name, nutrition_data) == [name |-> meal_name]

\* meal_db_data = {"name": meal_name, **nutrition_data}
MealDbData(meal_name, nutrition_data) == Merge([name |-> meal_name], nutrition_data)

NoEstimate == [exc |-> NoExc, data |-> EmptyDict, called |-> FALSE]

\* MealManager.create_meal_with_nutrition_analysis
create_meal_with_nutrition_analysis(st, nutrition_service, name, response, seq, now, dbFails) ==
    LET meal_name == strip(name)
    IN  IF ServiceMissing(nutrition_service)
        THEN [exc |-> Exc("ValueError", "Nutrition analysis service is not available"),
              result |-> <<>>, store |-> st, est |-> NoEstimate]
        ELSE LET est == analyze_meal_nutrition_wrapped(nutrition_service, response)
             IN  IF est.exc # NoExc
                 THEN [exc |-> est.exc, result |-> <<>>, store |-> st, est |-> est]
                 ELSE LET c == StoreCreate(st, MealDbData(meal_name, est.data), seq, now,
                                           dbFails)
                      IN  [exc |-> c.exc, result |-> c.result, store |-> c.store,
                           est |-> est]

\* MealManager.create_meal_manual
create_meal_manual(st, meal_data, seq, now, dbFails) ==
    StoreCreate(st, meal_data, seq, now, dbFails)

\* an update that logs the store's error and answers absence
update_meal_swallowing(st, meal_id, meal_data, now, dbFails) ==
    LET r == StoreUpdate(st, meal_id, meal_data, now, dbFails)
    IN  IF r.exc # NoExc THEN [exc |-> NoExc, result |-> <<>>, store |-> r.store] ELSE r

\* MealManager.update_meal
update_meal(st, meal_id, meal_data, now, dbFails) ==
    StoreUpdate(st, meal_id, meal_data, now, dbFails)

\* MealManager.delete_meal
delete_meal(st, meal_id, dbFails) == StoreDelete(st, meal_id, dbFails)

\* MealManager.get_meal_by_id
get_meal_by_id(st, meal_id, dbFails) == StoreGet(st, meal_id, dbFails)

\* MealManager.get_all_meals
get_all_meals(db_meals, dbFails) == StoreGetAll(db_meals, dbFails)

\* ---------------------------------------------------------------- statistics
\* get_meal_statistics has not answered
NoReport == [kind |-> "none"]

\* Nutrient values are whole numbers here. A total is in units, an average in
\* hundredths (round(x, 2)) and a percentage in tenths (round(x, 1)).
HighProtein == 15
LowCalories == 200
HighFiber == 5
HighSodium == 400

\* the nutrients data_completeness reports on
CompletenessFields == {"calories", "protein", "fats", "carbohydrates"}

\* m.field or 0
OrZero(v) == IF v = None THEN 0 ELSE v.num

\* round(num / den * 10^digits) for scale = 10^digits, nearest
RoundScaled(num, den, scale) == (2 * num * scale + den) \div (2 * den)

\* len([m for m in meals if m.field is not None])
MealsWith(meals, k) == Cardinality({i \in 1..Len(meals) : meals[i][k] # None})

\* sum(m.field or 0 for m in meals)
RECURSIVE Total(_, _)
Total(meals, k) ==
    IF meals = <<>> THEN 0 ELSE OrZero(Head(meals)[k]) + Total(Tail(meals), k)

\* an average over the records that have the field
AverageOverPresent(meals, k) ==
    IF MealsWith(meals, k) = 0 THEN 0
    ELSE RoundScaled(Total(meals, k), MealsWith(meals, k), 100)

\* round(total / total_meals, 2) if total_meals > 0 else 0
Average(meals, k) ==
    IF Len(meals) > 0 THEN RoundScaled(Total(meals, k), Len(meals), 100) ELSE 0

\* round((meals_with / total_meals) * 100, 1)
CompletionPercentage(meals, k) == RoundScaled(MealsWith(meals, k) * 100, Len(meals), 10)

\* a low-calorie test that wants the field present
IsLowCaloriePresentOnly(m) == m.calories # None /\ m.calories.num < LowCalories

IsHighProtein(m) == OrZero(m.protein) > HighProtein
IsLowCalorie(m) == OrZero(m.calories) < LowCalories
IsHighFiber(m) == OrZero(m.fiber) > HighFiber
IsHighSodium(m) == OrZero(m.sodium) > HighSodium

\* len([m for m in meals if ...]) for the four insights
HighProteinMeals(meals) == Cardinality({i \in 1..Len(meals) : IsHighProtein(meals[i])})
LowCalorieMeals(meals) == Cardinality({i \in 1..Len(meals) : IsLowCalorie(meals[i])})
HighFiberMeals(meals) == Cardinality({i \in 1..Len(meals) : IsHighFiber(meals[i])})
HighSodiumMeals(meals) == Cardinality({i \in 1..Len(meals) : IsHighSodium(meals[i])})

EmptyReport == [kind |-> "empty", total_meals |-> 0, message |-> "No meals in database"]

\* MealManager._calculate_meal_statistics
calculate_meal_statistics(meals) ==
    IF Len(meals) = 0
    THEN [exc |-> Exc("ZeroDivisionError", "division by zero"), report |-> NoReport]
    ELSE [exc |-> NoExc,
          report |->
              [kind |-> "statistics",
               total_meals |-> Len(meals),
               meals_with |-> [k \in CompletenessFields |-> MealsWith(meals, k)],
               completion_percentage |->
                   [k \in CompletenessFields |-> CompletionPercentage(meals, k)],
               totals |-> [k \in NutrientFields |-> Total(meals, k)],
               averages_per_meal |-> [k \in NutrientFields |-> Average(meals, k)],
               nutrition_insights |->
                   [high_protein_meals |-> HighProteinMeals(meals),
                    low_calorie_meals |-> LowCalorieMeals(meals),
                    high_fiber_meals |-> HighFiberMeals(meals),
                    high_sodium_meals |-> HighSodiumMeals(meals)]]]

\* the statistics without the check for an empty list
get_meal_statistics_unguarded(db_meals, dbFails) ==
    LET all == StoreGetAll(db_meals, dbFails)
    IN  IF all.exc # NoExc THEN [exc |-> all.exc, report |-> NoReport]
        ELSE calculate_meal_statistics(all.result)

\* MealManager.get_meal_statistics
get_meal_statistics(db_meals, dbFails) ==
    LET all == StoreGetAll(db_meals, dbFails)
    IN  IF all.exc # NoExc THEN [exc |-> all.exc, report |-> NoReport]
        ELSE IF Len(all.result) = 0 THEN [exc |-> NoExc, report |-> EmptyReport]
        ELSE calculate_meal_statistics(all.result)

\* ----------------------------------------------------- boundary (controller)
HTTP_201_CREATED == 201
HTTP_404_NOT_FOUND == 404
HTTP_500_INTERNAL_SERVER_ERROR == 500
HTTP_502_BAD_GATEWAY == 502
HTTP_503_SERVICE_UNAVAILABLE == 503

\* raise HTTPException(status_code, detail); str(e) is "<status_code>: <detail>"
HTTPException(status_code, detail) ==
    [type |-> "HTTPException", msg |-> detail, detail |-> <<>>, status_code |-> status_code]

\* words in str(e)
StrHas(e, words) == e.msg = words \/ \E i \in 1..Len(e.detail) : e.detail[i] = words

\* the except clauses of add_meal, in their order; no clause re-raises an
\* HTTPException
add_meal_except(e) ==
    IF IsValueError(e) THEN HTTP_503_SERVICE_UNAVAILABLE
    ELSE IF StrHas(e, "Failed to analyze meal nutrition") THEN HTTP_502_BAD_GATEWAY
    ELSE HTTP_500_INTERNAL_SERVER_ERROR

\* POST /fitbit/addMeal: the status answered when the manager is available or
\* not and create_meal_with_nutrition_analysis ended with manager_exc
add_meal(available, manager_exc) ==
    IF ~available
    THEN add_meal_except(HTTPException(HTTP_503_SERVICE_UNAVAILABLE,
                                       "Nutrition analysis service is not available"))
    ELSE IF manager_exc # NoExc THEN add_meal_except(manager_exc)
    ELSE HTTP_201_CREATED

\* GET getMeal, PUT updateMeal, DELETE deleteMeal: 404 for a falsy result,
\* re-raised by "except HTTPException: raise", 500 for any other exception
by_id_endpoint(manager_exc, found) ==
    IF manager_exc # NoExc THEN HTTP_500_INTERNAL_SERVER_ERROR
    ELSE IF ~found THEN HTTP_404_NOT_FOUND
    ELSE 200

\* GET getMeals and GET stats
list_endpoint(manager_exc) ==
    IF manager_exc # NoExc THEN HTTP_500_INTERNAL_SERVER_ERROR ELSE 200

\* GET /health: the database is probed, the Gemini service is judged by the
\* configured key
health_check(api_key, dbFails) ==
    [status |-> IF dbFails THEN "degraded" ELSE "healthy",
     gemini_service |-> IF api_key # "" THEN "available" ELSE "unavailable",
     database |-> IF dbFails THEN "disconnected" ELSE "connected"]

\* PUT /fitbit/updateMeal/{meal_id}: the body is a JSON object, parsed as
\* MealCreate, whose only field is name
MealCreateFields == {"name"}

\* a body parser that keeps every key of the body
MealCreateDictOfBody(body) == body

\* meal_data.dict(exclude_unset=True) of the MealCreate parsed from the body:
\* keys that are not fields of the model are ignored
MealCreateDict(body) == [k \in DOMAIN body \cap MealCreateFields |-> body[k]]

\* the route update_meal of the controller; a body that is no MealCreate is
\* answered 422 before the handler runs
update_meal_route(st, meal_id, body, now, dbFails) ==
    IF ~("name" \in DOMAIN body /\ MealCreateValid(body.name))
    THEN [exc |-> HTTPException(422, "Unprocessable Entity"), result |-> <<>>, store |-> st]
    ELSE LET update_data == MealCreateDict(body)
             r == update_meal(st, meal_id, update_data, now, dbFails)
         IN  IF r.exc # NoExc
             THEN [exc |-> HTTPException(HTTP_500_INTERNAL_SERVER_ERROR,
                                         "Failed to update meal"),
                   result |-> <<>>, store |-> r.store]
             ELSE IF r.result = <<>>
             THEN [exc |-> HTTPException(HTTP_404_NOT_FOUND, "Meal not found"),
                   result |-> <<>>, store |-> r.store]
             ELSE r

\* ------------------------------------------------------------------- inputs
LongName == [i \in 1..(NameMaxLength + 1) |-> "x"]
NameInputs == {<<" ", "a", " ">>, <<" ", " ">>, <<>>, LongName}

FullEstimate ==
    [calories |-> Float(240), protein |-> Float(8), fats |-> Float(4),
     carbohydrates |-> Float(48), fiber |-> Float(4), sugar |-> Float(2),
     sodium |-> Float(320)]
\* nulls, missing keys, a numeric-looking string and unknown keys
PartialEstimate ==
    [calories |-> None, protein |-> Str("12"), name |-> Str("evil"), id |-> Float(0)]
JunkEstimate == [calories |-> Str("abc"), protein |-> Float(8)]
HugeEstimate == [calories |-> Float(999999)]

Responses ==
    {[raises |-> TRUE, text |-> <<>>],
     [raises |-> FALSE, text |-> <<>>],
     [raises |-> FALSE, text |-> <<Prose>>],
     [raises |-> FALSE, text |-> <<Json(JsonArray)>>],
     [raises |-> FALSE, text |-> <<FenceJson, Json(JsonObject(FullEstimate)), Fence>>],
     [raises |-> FALSE, text |-> <<Fence, Json(JsonObject(PartialEstimate)), Fence>>],
     [raises |-> FALSE, text |-> <<Prose, FenceJson, Json(JsonObject(FullEstimate)), Fence>>],
     [raises |-> FALSE, text |-> <<Json(JsonObject(JunkEstimate))>>],
     [raises |-> FALSE, text |-> <<Json(JsonObject(HugeEstimate))>>]}

\* ids a caller can name: one of its own choosing and those issued so far
CallerIds(seq) == 0..(seq - 1)

ManualInputs(seq) ==
    {[name |-> <<"a">>, calories |-> Float(240)],
     [name |-> <<" ", "b">>, calories |-> Float(999999)],
     [name |-> <<"a">>, created_at |-> MaxTime, updated_at |-> 0],
     [calories |-> Float(240)],
     [name |-> <<"a">>, bogus |-> None],
     [name |-> <<"a">>, calories |-> Str("abc")]}
    \cup {[name |-> <<"a">>, id |-> i] : i \in CallerIds(seq)}

UpdateInputs(seq) ==
    {[name |-> <<"b">>],
     [calories |-> Float(300)],
     [calories |-> Float(999999)],
     [name |-> <<"b">>, calories |-> Float(999999)],
     [created_at |-> MaxTime],
     [updated_at |-> 0],
     [sugar |-> Str("abc")],
     [bogus |-> None]}
    \cup {[id |-> i] : i \in CallerIds(seq)}

\* -------------------------------------------------------------------- state
VARIABLES
    store,            \* the rows of table meals
    now,              \* the clock read by datetime.utcnow()
    seq,              \* number of the next create (fresh rowid and uuid)
    gemini_api_key,   \* settings.gemini_api_key
    created,          \* successful creates so far
    deleted,          \* successful deletes so far
    calls,            \* manager calls so far
    last,             \* the last manager call: its inputs, outcome and prior store
    gone,             \* ids a delete has removed, until a caller re-creates them
    manager,          \* a MealManager instance that serves several calls
    report,           \* what the last get_meal_statistics call answered
    inflight          \* the requests being served concurrently, one per worker

vars == <<store, now, seq, gemini_api_key, created, deleted, calls, last, gone, manager,
          report, inflight>>

NoResponse == [raises |-> FALSE, text |-> <<>>]

\* no MealManager has been constructed yet
NoManager == [built |-> FALSE, nutrition_service |-> FALSE, ctorRaised |-> FALSE]

\* the two workers that serve requests at the same time
Procs == {1, 2}

\* a worker with no request; n is the number its request draws for uuid4(),
\* or the place of its commit among the commits; fields and loaded are an
\* update's data and the row its query loaded
Idle == [pc |-> "idle", name |-> <<>>, response |-> NoResponse, est |-> EmptyDict,
         n |-> 0, dbFails |-> FALSE, exc |-> NoExc, result |-> <<>>,
         fields |-> EmptyDict, loaded |-> <<>>]

\* delete_meal returned True for meal_id
GoneAfterDelete(g, meal_id, was_deleted) == IF was_deleted THEN g \cup {meal_id} ELSE g

\* create_meal with a caller-supplied 'id' makes that id live again
GoneAfterCreate(g, meal_data) ==
    IF "id" \in DOMAIN meal_data THEN g \ {meal_data.id} ELSE g

\* response is what generate_content would answer during the call, called
\* whether it was asked, flag the boolean a delete returns
Call(op, name, id, fields, available, response, called, exc, result, flag) ==
    [op |-> op, name |-> name, id |-> id, fields |-> fields, available |-> available,
     response |-> response, called |-> called, exc |-> exc, result |-> result,
     flag |-> flag, pre |-> store, at |-> now]

Init ==
    /\ store = {}
    /\ now = 0
    /\ seq = 1
    /\ gemini_api_key \in {"", "key"}
    /\ created = 0
    /\ deleted = 0
    /\ calls = 0
    /\ last = Call("init", <<>>, 0, EmptyDict, FALSE, NoResponse, FALSE, NoExc, <<>>, FALSE)
    /\ gone = {}
    /\ manager = NoManager
    /\ report = NoReport
    /\ inflight = [p \in Procs |-> Idle]

\* time passes between requests
Tick ==
    /\ now < MaxTime
    /\ now' = now + 1
    /\ UNCHANGED <<store, seq, gemini_api_key, created, deleted, calls, last, gone,
                   manager, report, inflight>>

\* MealCreate(name=...) fails validation: no manager call is made
MealCreateRejected ==
    /\ calls < MaxCalls
    /\ calls' = calls + 1
    /\ \E name \in NameInputs :
        /\ ~MealCreateValid(name)
        /\ last' = Call("MealCreate", name, 0, EmptyDict, FALSE, NoResponse, FALSE,
                        Exc("ValidationError", "validation error for MealCreate"), <<>>,
                        FALSE)
        /\ UNCHANGED <<store, now, seq, gemini_api_key, created, deleted, gone, manager,
                       report, inflight>>

CreateWithEstimation ==
    /\ calls < MaxCalls
    /\ calls' = calls + 1
    /\ \E name \in NameInputs, response \in Responses, ctorRaises \in BOOLEAN,
       dbFails \in BOOLEAN :
        /\ MealCreateValid(name)
        /\ seq <= MaxCreates
        /\ LET svc == initialize_nutrition_service(gemini_api_key, ctorRaises)
               r == create_meal_with_nutrition_analysis(store, svc, name, response, seq,
                                                        now, dbFails)
           IN  /\ store' = r.store
               /\ seq' = IF r.store # store THEN seq + 1 ELSE seq
               /\ created' = IF r.exc = NoExc THEN created + 1 ELSE created
               /\ last' = Call("create_with_estimation", name, 0, EmptyDict,
                               is_nutrition_service_available(svc), response,
                               r.est.called, r.exc, r.result, FALSE)
        /\ UNCHANGED <<now, gemini_api_key, deleted, gone, manager, report, inflight>>

CreateManual ==
    /\ calls < MaxCalls
    /\ calls' = calls + 1
    /\ \E meal_data \in ManualInputs(seq), dbFails \in BOOLEAN :
        /\ seq <= MaxCreates
        /\ LET r == create_meal_manual(store, meal_data, seq, now, dbFails)
           IN  /\ store' = r.store
               /\ seq' = IF r.store # store THEN seq + 1 ELSE seq
               /\ created' = IF r.exc = NoExc THEN created + 1 ELSE created
               /\ last' = Call("create_manual", <<>>, 0, meal_data, FALSE, NoResponse, FALSE,
                               r.exc, r.result, FALSE)
               /\ gone' = IF r.store # store THEN GoneAfterCreate(gone, meal_data) ELSE gone
        /\ UNCHANGED <<now, gemini_api_key, deleted, manager, report, inflight>>

UpdateMeal ==
    /\ calls < MaxCalls
    /\ calls' = calls + 1
    /\ \E meal_id \in CallerIds(seq), meal_data \in UpdateInputs(seq), dbFails \in BOOLEAN :
        /\ LET r == update_meal(store, meal_id, meal_data, now, dbFails)
           IN  /\ store' = r.store
               /\ last' = Call("update", <<>>, meal_id, meal_data, FALSE, NoResponse, FALSE,
                               r.exc, r.result, FALSE)
        /\ UNCHANGED <<now, seq, gemini_api_key, created, deleted, gone, manager, report,
                       inflight>>

DeleteMeal ==
    /\ calls < MaxCalls
    /\ calls' = calls + 1
    /\ \E meal_id \in CallerIds(seq), dbFails \in BOOLEAN :
        /\ LET r == delete_meal(store, meal_id, dbFails)
           IN  /\ store' = r.store
               /\ deleted' = IF r.deleted THEN deleted + 1 ELSE deleted
               /\ last' = Call("delete", <<>>, meal_id, EmptyDict, FALSE, NoResponse, FALSE,
                               r.exc, <<>>, r.deleted)
               /\ gone' = GoneAfterDelete(gone, meal_id, r.deleted)
        /\ UNCHANGED <<now, seq, gemini_api_key, created, manager, report, inflight>>

GetMealById ==
    /\ calls < MaxCalls
    /\ calls' = calls + 1
    /\ \E meal_id \in CallerIds(seq), dbFails \in BOOLEAN :
        /\ LET r == get_meal_by_id(store, meal_id, dbFails)
           IN  last' = Call("get", <<>>, meal_id, EmptyDict, FALSE, NoResponse, FALSE, r.exc,
                            r.result, FALSE)
        /\ UNCHANGED <<store, now, seq, gemini_api_key, created, deleted, gone, manager,
                       report, inflight>>

GetAllMeals ==
    /\ calls < MaxCalls
    /\ calls' = calls + 1
    /\ \E db_meals \in OrderByCreatedAtDesc(store), dbFails \in BOOLEAN :
        /\ LET r == get_all_meals(db_meals, dbFails)
           IN  last' = Call("list_all", <<>>, 0, EmptyDict, FALSE, NoResponse, FALSE, r.exc,
                            r.result, FALSE)
        /\ UNCHANGED <<store, now, seq, gemini_api_key, created, deleted, gone, manager,
                       report, inflight>>

\* GET /meals/stats; last.result is the list the repository returned
GetMealStatistics ==
    /\ calls < MaxCalls
    /\ calls' = calls + 1
    /\ \E db_meals \in OrderByCreatedAtDesc(store), dbFails \in BOOLEAN :
        LET r == get_meal_statistics(db_meals, dbFails)
        IN  /\ report' = r.report
            /\ last' = Call("statistics", <<>>, 0, EmptyDict, FALSE, NoResponse, FALSE,
                            r.exc, IF r.exc = NoExc THEN db_meals ELSE <<>>, FALSE)
    /\ UNCHANGED <<store, now, seq, gemini_api_key, created, deleted, gone, manager,
                   inflight>>

Next ==
    \/ Tick
    \/ MealCreateRejected
    \/ CreateWithEstimation
    \/ CreateManual
    \/ UpdateMeal
    \/ DeleteMeal
    \/ GetMealById
    \/ GetAllMeals
    \/ GetMealStatistics

Spec == Init /\ [][Next]_vars

\* ------------------------------------------- one manager, several calls
\* a MealManager instance kept by its caller (the startup service, a test, a
\* script) and asked for several operations in a row, the database being
\* healthy (its failures are in Spec)
MaxMgrCalls == 4

MgrNames == {<<" ", "a", " ">>}

MgrResponses ==
    {[raises |-> TRUE, text |-> <<>>],
     [raises |-> FALSE, text |-> <<FenceJson, Json(JsonObject(FullEstimate)), Fence>>]}

\* creates that leave the id to the store
MgrManualInputs == {[name |-> <<"b">>, calories |-> Float(180)]}

MgrUpdateInputs(n) ==
    {[name |-> <<"b">>],
     [calories |-> Float(300)]}
    \cup {[id |-> i] : i \in CallerIds(n)}

\* MealManager(meal_repository)
BuildManager ==
    /\ ~manager.built
    /\ \E ctorRaises \in BOOLEAN :
        manager' = [built |-> TRUE,
                    nutrition_service |->
                        initialize_nutrition_service(gemini_api_key, ctorRaises),
                    ctorRaised |-> ctorRaises]
    /\ UNCHANGED <<store, now, seq, gemini_api_key, created, deleted, calls, last, gone,
                   report, inflight>>

MgrTick ==
    /\ manager.built
    /\ now < MaxTime
    /\ now' = now + 1
    /\ UNCHANGED <<store, seq, gemini_api_key, created, deleted, calls, last, gone, manager,
                   report, inflight>>

MgrCreateWithEstimation ==
    /\ calls < MaxMgrCalls
    /\ calls' = calls + 1
    /\ manager.built
    /\ seq <= MaxCreates
    /\ \E name \in MgrNames, response \in MgrResponses :
        LET r == create_meal_with_nutrition_analysis(store, manager.nutrition_service, name,
                                                     response, seq, now, FALSE)
        IN  /\ store' = r.store
            /\ seq' = IF r.store # store THEN seq + 1 ELSE seq
            /\ created' = IF r.exc = NoExc THEN created + 1 ELSE created
            /\ last' = Call("create_with_estimation", name, 0, EmptyDict,
                            is_nutrition_service_available(manager.nutrition_service),
                            response, r.est.called, r.exc, r.result, FALSE)
    /\ UNCHANGED <<now, gemini_api_key, deleted, gone, manager, report, inflight>>

MgrCreateManual ==
    /\ calls < MaxMgrCalls
    /\ calls' = calls + 1
    /\ manager.built
    /\ seq <= MaxCreates
    /\ \E meal_data \in MgrManualInputs :
        LET r == create_meal_manual(store, meal_data, seq, now, FALSE)
        IN  /\ store' = r.store
            /\ seq' = IF r.store # store THEN seq + 1 ELSE seq
            /\ created' = IF r.exc = NoExc THEN created + 1 ELSE created
            /\ last' = Call("create_manual", <<>>, 0, meal_data, FALSE, NoResponse, FALSE,
                            r.exc, r.result, FALSE)
            /\ gone' = IF r.store # store THEN GoneAfterCreate(gone, meal_data) ELSE gone
    /\ UNCHANGED <<now, gemini_api_key, deleted, manager, report, inflight>>

MgrUpdateMeal ==
    /\ calls < MaxMgrCalls
    /\ calls' = calls + 1
    /\ manager.built
    /\ \E meal_id \in CallerIds(seq), meal_data \in MgrUpdateInputs(seq) :
        LET r == update_meal(store, meal_id, meal_data, now, FALSE)
        IN  /\ store' = r.store
            /\ last' = Call("update", <<>>, meal_id, meal_data, FALSE, NoResponse, FALSE,
                            r.exc, r.result, FALSE)
    /\ UNCHANGED <<now, seq, gemini_api_key, created, deleted, gone, manager, report,
                   inflight>>

MgrDeleteMeal ==
    /\ calls < MaxMgrCalls
    /\ calls' = calls + 1
    /\ manager.built
    /\ \E meal_id \in CallerIds(seq) :
        LET r == delete_meal(store, meal_id, FALSE)
        IN  /\ store' = r.store
            /\ deleted' = IF r.deleted THEN deleted + 1 ELSE deleted
            /\ last' = Call("delete", <<>>, meal_id, EmptyDict, FALSE, NoResponse, FALSE,
                            r.exc, <<>>, r.deleted)
            /\ gone' = GoneAfterDelete(gone, meal_id, r.deleted)
    /\ UNCHANGED <<now, seq, gemini_api_key, created, manager, report, inflight>>

MgrGetMealById ==
    /\ calls < MaxMgrCalls
    /\ calls' = calls + 1
    /\ manager.built
    /\ \E meal_id \in CallerIds(seq) :
        LET r == get_meal_by_id(store, meal_id, FALSE)
        IN  last' = Call("get", <<>>, meal_id, EmptyDict, FALSE, NoResponse, FALSE, r.exc,
                         r.result, FALSE)
    /\ UNCHANGED <<store, now, seq, gemini_api_key, created, deleted, gone, manager, report,
                   inflight>>

MgrNext ==
    \/ BuildManager
    \/ MgrTick
    \/ MgrCreateWithEstimation
    \/ MgrCreateManual
    \/ MgrUpdateMeal
    \/ MgrDeleteMeal
    \/ MgrGetMealById

SpecManager == Init /\ [][MgrNext]_vars

\* --------------------------------------------- two requests at the same time
\* POST /meals/ served by two workers, each with its own manager, session and
\* description; a request runs in the steps between which the other may run
ConcName(p) == IF p = 1 THEN <<" ", "a", " ">> ELSE <<"b">>

ConcResponses ==
    {[raises |-> TRUE, text |-> <<>>],
     [raises |-> FALSE, text |-> <<FenceJson, Json(JsonObject(FullEstimate)), Fence>>],
     [raises |-> FALSE, text |-> <<Fence, Json(JsonObject(PartialEstimate)), Fence>>]}

\* get_meal_manager builds the request's manager; the service check
ReqBegin(p) ==
    /\ inflight[p].pc = "idle"
    /\ \E ctorRaises \in BOOLEAN :
        LET svc == initialize_nutrition_service(gemini_api_key, ctorRaises)
            req == [inflight EXCEPT ![p].name = ConcName(p)]
        IN  inflight' =
                IF ServiceMissing(svc)
                THEN [req EXCEPT ![p].pc = "done",
                                 ![p].exc = Exc("ValueError",
                                                "Nutrition analysis service is not available")]
                ELSE [req EXCEPT ![p].pc = "analyzing"]
    /\ UNCHANGED <<store, now, seq, gemini_api_key, created, deleted, calls, last, gone,
                   manager, report>>

\* the request's call of the adapter
ReqAnalyze(p) ==
    /\ inflight[p].pc = "analyzing"
    /\ \E response \in ConcResponses :
        LET est == analyze_meal_nutrition_wrapped(TRUE, response)
            req == [inflight EXCEPT ![p].response = response]
        IN  inflight' =
                IF est.exc # NoExc
                THEN [req EXCEPT ![p].pc = "done", ![p].exc = est.exc]
                ELSE [req EXCEPT ![p].pc = "analyzed", ![p].est = est.data]
    /\ UNCHANGED <<store, now, seq, gemini_api_key, created, deleted, calls, last, gone,
                   manager, report>>

\* meal_data['id'] = str(uuid.uuid4())
ReqDrawId(p) ==
    /\ inflight[p].pc = "analyzed"
    /\ inflight' = [inflight EXCEPT ![p].pc = "inserting", ![p].n = seq]
    /\ seq' = seq + 1
    /\ UNCHANGED <<store, now, gemini_api_key, created, deleted, calls, last, gone, manager,
                   report>>

\* the request's insert and commit, one transaction of the database
ReqCommit(p) ==
    /\ inflight[p].pc = "inserting"
    /\ \E dbFails \in BOOLEAN :
        LET req == inflight[p]
            c == StoreCreate(store, MealDbData(strip(req.name), req.est), req.n, now,
                             dbFails)
        IN  /\ store' = c.store
            /\ created' = IF c.exc = NoExc THEN created + 1 ELSE created
            /\ inflight' = [inflight EXCEPT ![p].pc = "done", ![p].exc = c.exc,
                                            ![p].result = c.result,
                                            ![p].dbFails = dbFails]
    /\ UNCHANGED <<now, seq, gemini_api_key, deleted, calls, last, gone, manager, report>>

ConcNext ==
    \/ Tick
    \/ \E p \in Procs : ReqBegin(p)
    \/ \E p \in Procs : ReqAnalyze(p)
    \/ \E p \in Procs : ReqDrawId(p)
    \/ \E p \in Procs : ReqCommit(p)

SpecConcurrent == Init /\ [][ConcNext]_vars

\* ------------------------------------ two updates of one record at a time
\* PUT updateMeal served by two workers for the same id, each with its own
\* session: the query and the commit are the steps the other may run between
LiveMeal == NewRow(1, [id |-> 1, name |-> <<"a">>, calories |-> Float(240)], 0)

ConcUpdateInputs ==
    {[name |-> <<"a">>],
     [name |-> <<"b">>],
     [calories |-> Float(300)],
     [name |-> <<"b">>, calories |-> Float(300)]}

InitUpdates ==
    /\ store = {LiveMeal}
    /\ now = 0
    /\ seq = 2
    /\ gemini_api_key \in {"", "key"}
    /\ created = 1
    /\ deleted = 0
    /\ calls = 0
    /\ last = Call("init", <<>>, 0, EmptyDict, FALSE, NoResponse, FALSE, NoExc, <<>>, FALSE)
    /\ gone = {}
    /\ manager = NoManager
    /\ report = NoReport
    /\ inflight = [p \in Procs |-> Idle]

\* the session's flush: UPDATE meals SET <the attributes whose value differs
\* from the loaded one> WHERE id = <the loaded primary key>; an attribute
\* set to the value it was loaded with has no net change and is not written
Flush(current, loaded, db_meal) ==
    [k \in DOMAIN current |-> IF db_meal[k] # loaded[k] THEN db_meal[k] ELSE current[k]]

\* db_meal = self.db.query(MealDB).filter(MealDB.id == meal_id).first()
UpdQuery(p) ==
    /\ inflight[p].pc = "idle"
    /\ \E meal_data \in ConcUpdateInputs :
        LET found == Lookup(store, LiveMeal.id)
        IN  inflight' =
                IF found = {}
                THEN [inflight EXCEPT ![p].pc = "done", ![p].fields = meal_data]
                ELSE [inflight EXCEPT ![p].pc = "loaded", ![p].fields = meal_data,
                                      ![p].loaded = <<CHOOSE r \in found : TRUE>>]
    /\ UNCHANGED <<store, now, seq, gemini_api_key, created, deleted, calls, last, gone,
                   manager, report>>

\* the setattr loop, updated_at, commit, refresh and Meal.from_orm
UpdCommit(p) ==
    /\ inflight[p].pc = "loaded"
    /\ \E dbFails \in BOOLEAN :
        LET req == inflight[p]
            loaded == req.loaded[1]
            db_meal == ApplyFields(loaded, req.fields, now)
            current == Lookup(store, loaded.id)
            failed(e) == [inflight EXCEPT ![p].pc = "done", ![p].exc = e,
                                          ![p].dbFails = dbFails]
        IN  IF ~BindOk(req.fields)
            THEN /\ inflight' = failed(Exc("StatementError", "could not convert to float"))
                 /\ UNCHANGED <<store, calls>>
            ELSE IF dbFails
            THEN /\ inflight' = failed(Exc("OperationalError", "database error"))
                 /\ UNCHANGED <<store, calls>>
            ELSE IF current = {}
            THEN /\ inflight' = failed(Exc("StaleDataError", "UPDATE matched 0 rows"))
                 /\ UNCHANGED <<store, calls>>
            ELSE LET cur == CHOOSE r \in current : TRUE
                     row == Flush(cur, loaded, db_meal)
                 IN  /\ store' = (store \ {cur}) \cup {row}
                     /\ calls' = calls + 1
                     /\ inflight' =
                            [inflight EXCEPT
                                ![p].pc = "done",
                                ![p].n = calls + 1,
                                ![p].exc = IF MealValid(row) THEN NoExc
                                           ELSE Exc("ValidationError",
                                                    "validation error for Meal"),
                                ![p].result = IF MealValid(row) THEN <<row>> ELSE <<>>]
    /\ UNCHANGED <<now, seq, gemini_api_key, created, deleted, last, gone, manager, report>>

UpdatesNext ==
    \/ Tick
    \/ \E p \in Procs : UpdQuery(p)
    \/ \E p \in Procs : UpdCommit(p)

SpecUpdates == InitUpdates /\ [][UpdatesNext]_vars

\* ------------------------------------------------- statistics over a store
\* get_meal_statistics asked of stores of up to MaxMeals valid records
MaxMeals == 4

\* the sample meals of the startup service, a record with a name only, and
\* records on the thresholds of the insights
MealPool ==
    {NewRow(1, [id |-> 1, name |-> <<"c">>, calories |-> Float(240), protein |-> Float(8),
                fats |-> Float(4), carbohydrates |-> Float(48), fiber |-> Float(4),
                sugar |-> Float(2), sodium |-> Float(320)], 0),
     NewRow(2, [id |-> 2, name |-> <<"d">>, calories |-> Float(180), protein |-> Float(12),
                fats |-> Float(2), carbohydrates |-> Float(28), fiber |-> Float(6),
                sugar |-> Float(3), sodium |-> Float(450)], 0),
     NewRow(3, [id |-> 3, name |-> <<"n">>], 0),
     NewRow(4, [id |-> 4, name |-> <<"o">>, calories |-> Float(150), protein |-> Float(5),
                fats |-> Float(3), carbohydrates |-> Float(27), fiber |-> Float(4),
                sugar |-> Float(8), sodium |-> Float(200)], 0),
     NewRow(5, [id |-> 5, name |-> <<"t">>, calories |-> Float(LowCalories),
                protein |-> Float(HighProtein + 1), fiber |-> Float(HighFiber),
                sodium |-> Float(HighSodium)], 0),
     NewRow(6, [id |-> 6, name |-> <<"z">>, calories |-> Float(0),
                protein |-> Float(HighProtein), sodium |-> Float(HighSodium + 1)], 0),
     NewRow(7, [id |-> 7, name |-> <<"u">>, calories |-> Float(220), protein |-> Float(6),
                fats |-> Float(8), carbohydrates |-> Float(35), fiber |-> Float(3),
                sugar |-> Float(4), sodium |-> Float(380)], 0)}

InitStats ==
    /\ store \in {st \in SUBSET MealPool : Cardinality(st) <= MaxMeals}
    /\ now = 0
    /\ seq = Cardinality(MealPool) + 1
    /\ gemini_api_key \in {"", "key"}
    /\ created = Cardinality(store)
    /\ deleted = 0
    /\ calls = 0
    /\ last = Call("init", <<>>, 0, EmptyDict, FALSE, NoResponse, FALSE, NoExc, <<>>, FALSE)
    /\ gone = {}
    /\ manager = NoManager
    /\ report = NoReport
    /\ inflight = [p \in Procs |-> Idle]

\* one call of get_meal_statistics for each store
StatsNext == calls = 0 /\ GetMealStatistics

SpecStats == InitStats /\ [][StatsNext]_vars

\* ------------------------------------------------------- startup seeding
\* StartupService._add_sample_data_if_needed run by two application
\* processes on one database, each up to MaxStartups times in all; the sample meals
\* "2 Chapati", "1 Bowl Dal", "1 Plate Upma" and "Oatmeal Bowl" are named
\* by one letter here
MaxStartups == 3

sample_meals ==
    <<[name |-> <<"C">>, calories |-> Float(240), protein |-> Float(8), fats |-> Float(4),
       carbohydrates |-> Float(48), fiber |-> Float(4), sugar |-> Float(2),
       sodium |-> Float(320)],
      [name |-> <<"D">>, calories |-> Float(180), protein |-> Float(12), fats |-> Float(2),
       carbohydrates |-> Float(28), fiber |-> Float(6), sugar |-> Float(3),
       sodium |-> Float(450)],
      [name |-> <<"U">>, calories |-> Float(220), protein |-> Float(6), fats |-> Float(8),
       carbohydrates |-> Float(35), fiber |-> Float(3), sugar |-> Float(4),
       sodium |-> Float(380)],
      [name |-> <<"O">>, calories |-> Float(150), protein |-> Float(5), fats |-> Float(3),
       carbohydrates |-> Float(27), fiber |-> Float(4), sugar |-> Float(8),
       sodium |-> Float(200)]>>

\* the rows of the store, newest first; the seeding looks only at whether
\* there are any, so one order among rows of equal created_at is taken
RECURSIVE RowsNewestFirst(_)
RowsNewestFirst(st) ==
    IF st = {} THEN <<>>
    ELSE LET r == CHOOSE x \in st : \A y \in st : x.created_at >= y.created_at
         IN  <<r>> \o RowsNewestFirst(st \ {r})

InitStartup ==
    /\ store \in {{}, {LiveMeal}}
    /\ now = 0
    /\ seq = 2
    /\ gemini_api_key \in {"", "key"}
    /\ created = Cardinality(store)
    /\ deleted = 0
    /\ calls = 0
    /\ last = Call("init", <<>>, 0, EmptyDict, FALSE, NoResponse, FALSE, NoExc, <<>>, FALSE)
    /\ gone = {}
    /\ manager = NoManager
    /\ report = NoReport
    /\ inflight = [p \in Procs |-> Idle]

\* existing_meals = await repo.get_all_meals(); if existing_meals: return.
\* loaded keeps what the check saw, n counts the sample meals added
SeedCheck(p) ==
    /\ calls < MaxStartups
    /\ calls' = calls + 1
    /\ inflight[p].pc \in {"idle", "done"}
    /\ \E dbFails \in BOOLEAN :
        LET existing_meals == StoreGetAll(RowsNewestFirst(store), dbFails)
            begun == [Idle EXCEPT !.loaded = existing_meals.result, !.dbFails = dbFails]
        IN  inflight' =
                [inflight EXCEPT ![p] =
                    IF existing_meals.exc # NoExc
                    THEN [begun EXCEPT !.pc = "done", !.exc = existing_meals.exc]
                    ELSE IF existing_meals.result # <<>>
                    THEN [begun EXCEPT !.pc = "done"]
                    ELSE [begun EXCEPT !.pc = "seeding"]]
    /\ UNCHANGED <<store, now, seq, gemini_api_key, created, deleted, last, gone,
                   manager, report>>

\* one turn of "for meal_data in sample_meals: await repo.create_meal(...)";
\* an exception ends the loop and is logged, not raised
SeedCreate(p) ==
    /\ inflight[p].pc = "seeding"
    /\ \E dbFails \in BOOLEAN :
        LET req == inflight[p]
            c == StoreCreate(store, sample_meals[req.n + 1], seq, now, dbFails)
        IN  /\ store' = c.store
            /\ seq' = seq + 1
            /\ created' = IF c.exc = NoExc THEN created + 1 ELSE created
            /\ inflight' =
                   [inflight EXCEPT
                       ![p].n = IF c.exc = NoExc THEN req.n + 1 ELSE req.n,
                       ![p].exc = c.exc,
                       ![p].dbFails = dbFails,
                       ![p].pc = IF c.exc # NoExc \/ req.n + 1 = Len(sample_meals)
                                 THEN "done" ELSE "seeding"]
    /\ UNCHANGED <<now, gemini_api_key, deleted, calls, last, gone, manager, report>>

StartupNext ==
    \/ Tick
    \/ \E p \in Procs : SeedCheck(p)
    \/ \E p \in Procs : SeedCreate(p)

SpecStartup == InitStartup /\ [][StartupNext]_vars

\* ------------------------------------------------ updates through the route
\* PUT /fitbit/updateMeal/{meal_id} with any meal_id and any body
\* records the routes find in the store: two sample meals and one whose
\* calories were committed out of range by an earlier failed write
RoutePool ==
    {NewRow(1, [id |-> 1, name |-> <<"c">>, calories |-> Float(240), protein |-> Float(8),
                fats |-> Float(4), carbohydrates |-> Float(48), fiber |-> Float(4),
                sugar |-> Float(2), sodium |-> Float(320)], 0),
     NewRow(2, [id |-> 2, name |-> <<"n">>], 0),
     NewRow(3, [id |-> 3, name |-> <<"x">>, calories |-> Float(999999)], 0)}

\* request bodies: a name, a name with nutrients and identity, a blank name,
\* no name, an empty name, a name that is too long
RouteBodies ==
    {[name |-> <<"b">>],
     [name |-> <<"b">>, calories |-> Float(300), protein |-> Str("12"), id |-> 2,
      created_at |-> 1, updated_at |-> 0, sugar |-> None],
     [name |-> <<" ">>, id |-> 9],
     [calories |-> Float(300)],
     [name |-> <<>>],
     [name |-> LongName, fats |-> Float(1)]}

InitRoute ==
    /\ store \in SUBSET RoutePool
    /\ now = 0
    /\ seq = Cardinality(RoutePool) + 1
    /\ gemini_api_key \in {"", "key"}
    /\ created = Cardinality(store)
    /\ deleted = 0
    /\ calls = 0
    /\ last = Call("init", <<>>, 0, EmptyDict, FALSE, NoResponse, FALSE, NoExc, <<>>, FALSE)
    /\ gone = {}
    /\ manager = NoManager
    /\ report = NoReport
    /\ inflight = [p \in Procs |-> Idle]

PutUpdateMeal ==
    /\ calls < MaxCalls
    /\ calls' = calls + 1
    /\ \E meal_id \in 1..Cardinality(RoutePool), body \in RouteBodies, dbFails \in BOOLEAN :
        LET r == update_meal_route(store, meal_id, body, now, dbFails)
        IN  /\ store' = r.store
            /\ last' = Call("put_update_meal", <<>>, meal_id, body, FALSE, NoResponse,
                            FALSE, r.exc, r.result, FALSE)
    /\ UNCHANGED <<now, seq, gemini_api_key, created, deleted, gone, manager, report,
                   inflight>>

RouteNext ==
    \/ Tick
    \/ PutUpdateMeal

SpecRoute == InitRoute /\ [][RouteNext]_vars

\* ============================================================== properties
\* the failure kinds a caller can tell apart, by exception class and message
IsEstimationUnavailable(e) ==
    e.type = "ValueError" /\ e.msg = "Nutrition analysis service is not available"
IsEstimationFailure(e) ==
    e.type = "Exception" /\ e.msg = "Failed to analyze meal nutrition"
IsValidationFailure(e) == e.type = "ValidationError"
IsStoreFailure(e) == e.type \in {"StatementError", "OperationalError", "IntegrityError"}

FailureKinds(e) ==
    {k \in {"EstimationUnavailable", "EstimationFailure", "ValidationFailure", "StoreFailure"} :
        \/ k = "EstimationUnavailable" /\ IsEstimationUnavailable(e)
        \/ k = "EstimationFailure" /\ IsEstimationFailure(e)
        \/ k = "ValidationFailure" /\ IsValidationFailure(e)
        \/ k = "StoreFailure" /\ IsStoreFailure(e)}

\* a valid name: non-empty after trimming, at most 200 characters
ValidName(name) == strip(name) # <<>> /\ Len(name) <= NameMaxLength

IsCreateWithEstimation == last.op = "create_with_estimation"

\* the adapter's estimate for the response of the last call
AdapterEstimate == analyze_meal_nutrition(last.response)

\* C1: for every valid name, create_with_estimation either returns a stored
\* record whose name is the trimmed input, or fails with exactly one of the four
\* failure kinds; when the adapter's estimate failed no record is returned or
\* persisted in its place.
C1_CreateReturnsRecordOrFails ==
    (IsCreateWithEstimation /\ ValidName(last.name)) =>
        /\ \/ /\ last.exc = NoExc
              /\ Len(last.result) = 1
              /\ last.result[1].name = strip(last.name)
              /\ last.result[1] \in store
           \/ /\ last.exc # NoExc
              /\ last.result = <<>>
              /\ Cardinality(FailureKinds(last.exc)) = 1
        /\ (AdapterEstimate.exc # NoExc) => (last.exc # NoExc /\ store = last.pre)

\* C1 witness: a valid name with surrounding blanks was stored trimmed
C1_Witness ==
    /\ IsCreateWithEstimation
    /\ last.name = <<" ", "a", " ">>
    /\ last.exc = NoExc
    /\ last.result[1].name = <<"a">>

\* C2: a name that is empty after trimming is rejected with a validation
\* failure (a ValueError of any kind) before anything else: the adapter is not
\* called and no record is added to the store.
C2_BlankNameRejectedFirst ==
    (IsCreateWithEstimation /\ strip(last.name) = <<>>) =>
        /\ IsValueError(last.exc)
        /\ ~last.called
        /\ store = last.pre

\* C3: when estimation is unavailable, create_with_estimation fails with the
\* service-unavailable condition, the external call is not made and the store
\* is unchanged.
C3_UnavailableFailsBeforeEstimate ==
    (IsCreateWithEstimation /\ ~last.available) =>
        /\ IsEstimationUnavailable(last.exc)
        /\ FailureKinds(last.exc) = {"EstimationUnavailable"}
        /\ ~last.called
        /\ store = last.pre

\* C3 witness: a create was attempted without a credential, on a store that
\* already held a record
C3_Witness ==
    /\ IsCreateWithEstimation
    /\ gemini_api_key = ""
    /\ ~last.available
    /\ last.pre # {}

\* C4: when the adapter's estimate fails (transport error, empty response,
\* unparseable content), create_with_estimation raises the upstream-failure
\* condition and the store holds exactly the records it held before.
C4_EstimateFailurePropagates ==
    (IsCreateWithEstimation /\ last.available /\ AdapterEstimate.exc # NoExc) =>
        /\ IsEstimationFailure(last.exc)
        /\ FailureKinds(last.exc) = {"EstimationFailure"}
        /\ last.result = <<>>
        /\ store = last.pre

\* C4 witness: the external text was prose, not JSON, and the store was not
\* empty
C4_Witness ==
    /\ IsCreateWithEstimation
    /\ last.available
    /\ last.response = [raises |-> FALSE, text |-> <<Prose>>]
    /\ last.pre # {}

\* C5: on success the stored record has the trimmed name, an identifier and
\* timestamps set by the store, and for each of the seven nutrient fields
\* exactly the value of the adapter's estimate; it is the only record added.
C5_StoredRecordIsNamePlusEstimate ==
    (IsCreateWithEstimation /\ last.exc = NoExc) =>
        /\ AdapterEstimate.exc = NoExc
        /\ Len(last.result) = 1
        /\ LET row == last.result[1]
           IN  /\ store = last.pre \cup {row}
               /\ row \notin last.pre
               /\ DOMAIN row = Columns \cup {"rowid"}
               /\ row.name = strip(last.name)
               /\ \A k \in NutrientFields : row[k] = AdapterEstimate.data[k]
               /\ Lookup(last.pre, row.id) = {}
               /\ row.created_at = last.at
               /\ row.updated_at = last.at

\* C5 witness: an estimate with nulls, missing keys, a numeric string and the
\* unknown keys name and id was stored
C5_Witness ==
    /\ IsCreateWithEstimation
    /\ last.exc = NoExc
    /\ last.response = [raises |-> FALSE, text |-> <<Fence, Json(JsonObject(PartialEstimate)), Fence>>]
    /\ last.result[1].protein = Float(12)
    /\ last.result[1].calories = None

\* some nutrient supplied in fields is a number outside its declared range
SuppliesOutOfRange(fields) ==
    \E k \in NutrientFields \cap DOMAIN fields :
        FloatOk(fields[k]) /\ ~InRange(k, ToFloat(fields[k]))

\* C6: an update that supplies an out-of-range nutrient (calories 999999
\* against the bound 5000) fails and leaves the stored record as it was: no
\* field of the call, and not updated_at, is changed.
C6_OutOfRangeUpdateChangesNothing ==
    (last.op = "update" /\ Lookup(last.pre, last.id) # {} /\ SuppliesOutOfRange(last.fields)) =>
        /\ last.exc # NoExc
        /\ store = last.pre

\* C7: every nutrient that is present on a live record lies within its
\* declared bounds.
C7_NutrientsWithinBounds ==
    \A r \in store : \A k \in NutrientFields : InRange(k, r[k])

\* C8: no two live records share an id, and no call changes the id of a
\* record that existed before it.
C8_IdUniqueAndImmutable ==
    /\ \A r1 \in store : \A r2 \in store : r1.id = r2.id => r1 = r2
    /\ \A p \in last.pre : \A r \in store : p.rowid = r.rowid => p.id = r.id

\* C9: created_at of a record is never changed by a later call, a successful
\* update sets updated_at to the current time, and updated_at >= created_at
\* holds for every live record.
C9_TimestampsOrdered ==
    /\ \A r \in store : r.updated_at >= r.created_at
    /\ \A p \in last.pre : \A r \in store : p.rowid = r.rowid => p.created_at = r.created_at
    /\ (last.op = "update" /\ last.exc = NoExc /\ last.result # <<>>) =>
           last.result[1].updated_at = last.at

\* C10: with no delete so far, list_all (unless the store itself fails)
\* returns exactly as many records as creates have succeeded, ordered by
\* created_at descending; on an empty store it returns the empty sequence.
C10_ListAllReturnsEveryCreate ==
    (last.op = "list_all" /\ deleted = 0 /\ ~IsStoreFailure(last.exc)) =>
        /\ last.exc = NoExc
        /\ Len(last.result) = created
        /\ IsSortedDesc(last.result)
        /\ (store = {} => last.result = <<>>)


\* C11: once delete(id) has removed a record, get(id) yields absence, and keeps
\* yielding absence whatever updates, deletes and creates with store-generated
\* ids follow
C11_DeletedStaysAbsent ==
    \A id \in gone :
        LET r == get_meal_by_id(store, id, FALSE)
        IN  r.exc = NoExc /\ r.result = <<>>

\* the record a successful update was asked to change, before the call
UpdatedBefore == CHOOSE r \in last.pre : r.id = last.id

IsSuccessfulUpdate == last.op = "update" /\ last.exc = NoExc /\ last.result # <<>>

\* C12: a successful update(id, partial_fields) overwrites only the supplied
\* fields of the record with that id; every other field of it except
\* updated_at keeps its value and every other record is unchanged
C12_UpdateOverwritesOnlySupplied ==
    IsSuccessfulUpdate =>
        LET old == UpdatedBefore
            new == last.result[1]
        IN  /\ new.rowid = old.rowid
            /\ \A k \in Columns \ (DOMAIN last.fields \cup {"updated_at"}) : new[k] = old[k]
            /\ \A k \in (Columns \cap DOMAIN last.fields) \ {"updated_at"} :
                   new[k] = IF k \in NutrientFields THEN ToFloat(last.fields[k])
                            ELSE last.fields[k]
            /\ new \in store
            /\ store \ {new} = last.pre \ {old}

\* a successful update of one of two records, the other fields holding values
C12_Witness ==
    /\ IsSuccessfulUpdate
    /\ Cardinality(last.pre) = 2
    /\ "name" \in DOMAIN last.fields
    /\ UpdatedBefore.calories # None
    /\ last.result[1].name # UpdatedBefore.name

\* the id the last call named had no live record
IdWasMissing == Lookup(last.pre, last.id) = {}

\* C13: for an id with no live record get and update return absence and
\* delete returns false, without an exception and without a change of the
\* store; delete returns true exactly when a record with that id existed, and
\* then that record and only that record is removed
C13_MissingIdIsAbsence ==
    /\ (last.op \in {"get", "update"} /\ IdWasMissing) =>
           /\ last.exc = NoExc
           /\ last.result = <<>>
           /\ store = last.pre
    /\ (last.op = "delete" /\ IdWasMissing) =>
           /\ last.exc = NoExc
           /\ ~last.flag
           /\ store = last.pre
    /\ (last.op = "delete" /\ last.exc = NoExc) =>
           /\ last.flag <=> ~IdWasMissing
           /\ last.flag =>
                  /\ Cardinality(Lookup(last.pre, last.id)) = 1
                  /\ store = last.pre \ Lookup(last.pre, last.id)

\* a delete that removed one of two records
C13_Witness ==
    /\ last.op = "delete"
    /\ Cardinality(last.pre) = 2
    /\ last.flag
    /\ Cardinality(store) = 1

\* C15: is_nutrition_service_available is true iff the adapter was constructed
\* successfully with a usable credential, and no operation of the manager,
\* a failed estimate included, changes it after construction
C15_AvailabilityFixedAtConstruction ==
    [][/\ manager'.built =>
              (is_nutrition_service_available(manager'.nutrition_service)
                   <=> (gemini_api_key' # "" /\ ~manager'.ctorRaised))
       /\ manager.built =>
              /\ manager'.built
              /\ is_nutrition_service_available(manager'.nutrition_service)
                     = is_nutrition_service_available(manager.nutrition_service)]_vars

\* an available manager whose estimate has just failed
C15_Witness ==
    /\ manager.built
    /\ is_nutrition_service_available(manager.nutrition_service)
    /\ last.op = "create_with_estimation"
    /\ IsEstimationFailure(last.exc)
    /\ calls > 1

\* the request of worker p ended with a record
Persisted(p) == inflight[p].pc = "done" /\ inflight[p].exc = NoExc

\* C14: two concurrent create_with_estimation calls for different descriptions
\* each persist a record of their own, with distinct ids, under every
\* interleaving of their adapter calls and store writes; neither overwrites
\* or loses the other's record
C14_ConcurrentCreatesIndependent ==
    /\ \A p \in Procs :
           LET req == inflight[p]
           IN  /\ (req.pc = "done" /\ req.n # 0 /\ ~req.dbFails) => req.exc = NoExc
               /\ Persisted(p) =>
                      /\ Len(req.result) = 1
                      /\ req.result[1] \in store
                      /\ req.result[1].name = strip(ConcName(p))
                      /\ \A k \in NutrientFields :
                             req.result[1][k] = ToFloat(Get(req.est, k))
    /\ \A p \in Procs : \A q \in Procs \ {p} :
           (Persisted(p) /\ Persisted(q)) =>
               /\ inflight[p].result[1].id # inflight[q].result[1].id
               /\ Cardinality(store) = 2

\* both requests persisted, with different estimates, worker 2 having drawn
\* its id first
C14_Witness ==
    /\ Persisted(1)
    /\ Persisted(2)
    /\ inflight[1].n > inflight[2].n
    /\ inflight[1].est # inflight[2].est

\* get_meal_statistics has just answered for the store last.pre
StatisticsAnswered == last.op = "statistics" /\ last.exc = NoExc

\* C16: statistics on a store with zero records returns the empty-state
\* report (total count 0) and performs no nutrient arithmetic, so nothing is
\* divided by a total count of 0
C16_EmptyStoreGetsEmptyReport ==
    (last.op = "statistics" /\ last.pre = {} /\ ~IsStoreFailure(last.exc)) =>
        /\ last.exc = NoExc
        /\ report = EmptyReport
        /\ report.total_meals = 0
        /\ DOMAIN report = {"kind", "total_meals", "message"}

C16_Witness == StatisticsAnswered /\ last.pre = {} /\ report.kind = "empty"

\* the sum of a field over a set of records, an absent value counting as 0
RECURSIVE SumOfRows(_, _)
SumOfRows(rows, k) ==
    IF rows = {} THEN 0
    ELSE LET r == CHOOSE x \in rows : TRUE
         IN  (IF r[k] = None THEN 0 ELSE r[k].num) + SumOfRows(rows \ {r}, k)

\* a is the multiple of 1/scale nearest to num / den
IsNearest(a, num, den, scale) ==
    /\ 2 * (a * den - num * scale) <= den
    /\ 2 * (num * scale - a * den) <= den

\* the records of the pool whose calories are 240, 180, absent and 150
CaloriesExample ==
    {r \in MealPool : r.calories \in {Float(240), Float(180), None, Float(150)}}

\* C17: for a non-empty store the total of each nutrient is the sum over all
\* records with an absent value counted as 0, and the average is that total
\* divided by the number of all records; calories [240, 180, None, 150] give
\* total 570.0, average 142.5 and completion percentage 75.0
C17_TotalsAndAverages ==
    (StatisticsAnswered /\ last.pre # {}) =>
        LET n == Cardinality(last.pre)
        IN  /\ report.total_meals = n
            /\ \A k \in NutrientFields :
                   /\ report.totals[k] = SumOfRows(last.pre, k)
                   /\ IsNearest(report.averages_per_meal[k], SumOfRows(last.pre, k), n, 100)
            /\ last.pre = CaloriesExample =>
                   /\ report.totals.calories = 570
                   /\ report.averages_per_meal.calories = 14250
                   /\ report.completion_percentage.calories = 750

C17_Witness ==
    /\ StatisticsAnswered
    /\ Cardinality(CaloriesExample) = 4
    /\ last.pre = CaloriesExample
    /\ report.averages_per_meal.calories = 14250

\* the number of records of a set that have the field
PresentCount(rows, k) == Cardinality({r \in rows : r[k] # None})

\* C18: for a non-empty store statistics reports, for each of the seven
\* nutrients, the count of records where the field is present and the
\* completion percentage present-count / total count x 100
C18_CompletenessForEveryNutrient ==
    (StatisticsAnswered /\ last.pre # {}) =>
        \A k \in NutrientFields :
            /\ k \in DOMAIN report.meals_with
            /\ report.meals_with[k] = PresentCount(last.pre, k)
            /\ k \in DOMAIN report.completion_percentage
            /\ IsNearest(report.completion_percentage[k], PresentCount(last.pre, k) * 100,
                         Cardinality(last.pre), 10)

\* C19: the insight counts are the numbers of records with protein > 15,
\* calories < 200, fiber > 5 and sodium > 400, an absent value compared as 0:
\* a record without calories is a low-calorie record, a record without
\* protein, fiber or sodium is never a high one
C19_InsightCounts ==
    (StatisticsAnswered /\ last.pre # {}) =>
        LET insights == report.nutrition_insights
        IN  /\ insights.high_protein_meals =
                   Cardinality({r \in last.pre : r.protein # None /\ r.protein.num > 15})
            /\ insights.low_calorie_meals =
                   Cardinality({r \in last.pre : r.calories = None \/ r.calories.num < 200})
            /\ insights.high_fiber_meals =
                   Cardinality({r \in last.pre : r.fiber # None /\ r.fiber.num > 5})
            /\ insights.high_sodium_meals =
                   Cardinality({r \in last.pre : r.sodium # None /\ r.sodium.num > 400})

\* a report over records without calories and without protein, and records
\* on both sides of a threshold
C19_Witness ==
    /\ StatisticsAnswered
    /\ \E r \in last.pre : r.calories = None /\ r.protein = None
    /\ \E r \in last.pre : r.calories # None /\ r.calories.num = 200
    /\ \E r \in last.pre : r.sodium # None /\ r.sodium.num > 400
    /\ Cardinality(last.pre) = 3
    /\ report.nutrition_insights.low_calorie_meals = 2
    /\ report.nutrition_insights.high_protein_meals = 1

\* what json.loads made of the external text of the last call
DecodedResponse == StripFences(last.response.text)[1].val

\* the external text decoded to an object that NutritionInfo rejects
FallbackTaken ==
    /\ IsCreateWithEstimation
    /\ ValidName(last.name)
    /\ last.called
    /\ ~last.response.raises
    /\ last.response.text # <<>>
    /\ JsonLoadsOk(StripFences(last.response.text))
    /\ DecodedResponse.jtype = "object"
    /\ ~NutritionInfoOk(DecodedResponse)

\* C20: when the decoded data fails strict validation but is partially
\* recoverable, estimate returns the lenient key-by-key extraction instead of
\* failing: unknown keys are ignored and each unparseable or missing nutrient
\* key is absent, so every value of the estimate is a number or absent
C20_LenientEstimateIsNumeric ==
    FallbackTaken =>
        /\ AdapterEstimate.exc = NoExc
        /\ DOMAIN AdapterEstimate.data = NutrientFields
        /\ \A k \in NutrientFields :
               LET v == AdapterEstimate.data[k]
               IN  /\ v.kind \in {"none", "float"}
                   /\ k \notin DOMAIN DecodedResponse.obj => v = None
                   /\ (k \in DOMAIN DecodedResponse.obj /\ ~FloatOk(DecodedResponse.obj[k]))
                          => v = None

\* the external text of the last call as the words it is made of
RECURSIVE TextWords(_)
TextWords(text) ==
    IF text = <<>> THEN <<>> ELSE <<Head(text).tok>> \o TextWords(Tail(text))

\* str(e) has the words w in it
Carries(e, w) ==
    \E i \in 1..(Len(e.detail) - Len(w) + 1) : SubSeq(e.detail, i, i + Len(w) - 1) = w

\* the adapter was given text that is no JSON document after the fences went
UnparseableText ==
    /\ IsCreateWithEstimation
    /\ ValidName(last.name)
    /\ last.called
    /\ ~last.response.raises
    /\ last.response.text # <<>>
    /\ ~JsonLoadsOk(StripFences(last.response.text))

EmptyResponseFailure == analyze_meal_nutrition([raises |-> FALSE, text |-> <<>>]).exc
TransportFailure == analyze_meal_nutrition([raises |-> TRUE, text |-> <<>>]).exc

\* C21: text that is not valid structured data after the fences are stripped
\* makes estimate fail with the parse-error variant, which carries the
\* offending text and differs from the failure for an empty response and
\* from the failure of the external call itself
C21_ParseErrorCarriesText ==
    UnparseableText =>
        /\ AdapterEstimate.exc # NoExc
        /\ AdapterEstimate.exc.msg = "Invalid JSON response from Gemini"
        /\ AdapterEstimate.exc # EmptyResponseFailure
        /\ AdapterEstimate.exc # TransportFailure
        /\ IsEstimationFailure(last.exc)
        /\ Carries(AdapterEstimate.exc, TextWords(StripFences(last.response.text)))

\* the status the controller answers for the last call when it is made
\* through the HTTP boundary
HttpStatus ==
    CASE last.op = "MealCreate" -> 422
      [] last.op = "create_with_estimation" -> add_meal(last.available, last.exc)
      [] last.op \in {"get", "update"} -> by_id_endpoint(last.exc, last.result # <<>>)
      [] last.op = "delete" -> by_id_endpoint(last.exc, last.flag)
      [] last.op \in {"list_all", "statistics"} -> list_endpoint(last.exc)
      [] OTHER -> 0

\* C22: the boundary maps every outcome of a manager operation to one class
\* by the kind of outcome: validation failure to a client error, not-found to
\* 404, estimation-unavailable to 503, estimation failure to 502, any other
\* failure to 500; add_meal answers 503 only when estimation is unavailable
\* and 502 only when the adapter's estimate failed
C22_OutcomeKindDecidesStatus ==
    /\ last.op = "MealCreate" => HttpStatus \in 400..499
    /\ (last.op \in {"get", "update", "delete"} /\ last.exc = NoExc /\ IdWasMissing)
           => HttpStatus = 404
    /\ (last.op \in {"get", "update", "delete", "list_all"} /\ IsStoreFailure(last.exc))
           => HttpStatus = 500
    /\ last.op = "create_with_estimation" =>
           /\ ~last.available => HttpStatus = 503
           /\ HttpStatus = 503 => ~last.available
           /\ (last.available /\ IsEstimationFailure(last.exc)) => HttpStatus = 502
           /\ HttpStatus = 502 => (last.available /\ IsEstimationFailure(last.exc))
           /\ (last.available /\ IsValidationFailure(last.exc)) => HttpStatus \in 400..499
           /\ (last.available /\ IsStoreFailure(last.exc)) => HttpStatus = 500
           /\ (last.available /\ last.exc = NoExc) => HttpStatus = 201

\* the last call ended as the store operation s did
EndedAs(s) == last.exc = s.exc /\ last.result = s.result

\* C23: the manager never swallows a store error: the outcome of list_all,
\* get, create_with_estimation, create_manual, update, delete and statistics
\* is the outcome of the store operation it invoked, and when that failed the
\* call fails with that error and returns no list, record, flag or report
C23_StoreErrorsPropagate ==
    /\ last.exc # NoExc => (last.result = <<>> /\ ~last.flag)
    /\ last.op = "get" =>
           \E d \in BOOLEAN : EndedAs(StoreGet(last.pre, last.id, d))
    /\ last.op = "update" =>
           \E d \in BOOLEAN :
               EndedAs(StoreUpdate(last.pre, last.id, last.fields, last.at, d))
    /\ last.op = "delete" =>
           \E d \in BOOLEAN :
               LET s == StoreDelete(last.pre, last.id, d)
               IN  last.exc = s.exc /\ last.flag = s.deleted
    /\ last.op = "list_all" =>
           \E d \in BOOLEAN, db_meals \in OrderByCreatedAtDesc(last.pre) :
               EndedAs(StoreGetAll(db_meals, d))
    /\ last.op = "create_manual" =>
           \E d \in BOOLEAN, n \in 1..seq :
               EndedAs(StoreCreate(last.pre, last.fields, n, last.at, d))
    /\ (last.op = "create_with_estimation" /\ last.available
            /\ AdapterEstimate.exc = NoExc) =>
           \E d \in BOOLEAN, n \in 1..seq :
               EndedAs(StoreCreate(last.pre,
                                   MealDbData(strip(last.name), AdapterEstimate.data),
                                   n, last.at, d))
    /\ last.op = "statistics" =>
           \E d \in BOOLEAN, db_meals \in OrderByCreatedAtDesc(last.pre) :
               LET s == StoreGetAll(db_meals, d)
               IN  /\ last.exc = s.exc
                   /\ s.exc # NoExc => report = NoReport
                   /\ s.exc = NoExc => (report # NoReport /\ last.result = s.result)

\* an update of a live record that the database refused
C23_Witness ==
    /\ last.op = "update"
    /\ ~IdWasMissing
    /\ last.exc.type = "OperationalError"
    /\ store = last.pre

\* both updates of the live record have committed
BothUpdated == \A p \in Procs : inflight[p].pc = "done" /\ inflight[p].n > 0

\* the worker whose update committed last
LastCommitter == CHOOSE p \in Procs : \A q \in Procs : inflight[q].n <= inflight[p].n

\* the value an update's data asks for in column k
Asked(p, k) ==
    IF k \in NutrientFields THEN ToFloat(inflight[p].fields[k]) ELSE inflight[p].fields[k]

\* C24: two concurrent updates of the same live id both complete without
\* error and one record stays for the id; a field supplied by both holds the
\* value of the update that committed last, a field supplied by one of them
\* holds that update's value
C24_LastWriteWins ==
    /\ \A p \in Procs :
           (inflight[p].pc = "done" /\ inflight[p].fields # EmptyDict
                /\ ~inflight[p].dbFails) => inflight[p].exc = NoExc
    /\ Cardinality(Lookup(store, LiveMeal.id)) = 1
    /\ BothUpdated =>
           LET row == CHOOSE r \in Lookup(store, LiveMeal.id) : TRUE
           IN  \A k \in Columns \ {"updated_at"} :
                   /\ (\A p \in Procs : k \in DOMAIN inflight[p].fields)
                          => row[k] = Asked(LastCommitter, k)
                   /\ \A p \in Procs :
                          (k \in DOMAIN inflight[p].fields
                               /\ \A q \in Procs \ {p} : k \notin DOMAIN inflight[q].fields)
                              => row[k] = Asked(p, k)

\* the last call was one of the manager's three writes
IsWrite == last.op \in {"create_with_estimation", "create_manual", "update"}

\* C25: when create_with_estimation, create_manual or update ends in a
\* failure, the store holds exactly the records, with exactly the field
\* values, that it held before the call
C25_FailedWriteLeavesStore ==
    (IsWrite /\ last.exc # NoExc) => store = last.pre

\* the columns an update through the route may not change
RouteFrame == Columns \ {"name", "updated_at"}

\* C26: an update through PUT updateMeal changes only the name and updated_at
\* of the addressed record: its id, created_at and seven nutrient fields, and
\* every other record, are as before, whatever the body contains
C26_RouteUpdateFrame ==
    last.op = "put_update_meal" =>
        /\ \A old \in last.pre : old.id # last.id => old \in store
        /\ Cardinality(store) = Cardinality(last.pre)
        /\ \A old \in Lookup(last.pre, last.id) :
               \E row \in store :
                   /\ row.rowid = old.rowid
                   /\ \A k \in RouteFrame : row[k] = old[k]

\* a body with nutrients and another id has renamed a record
C26_Witness ==
    /\ last.op = "put_update_meal"
    /\ {"calories", "id", "created_at"} \subseteq DOMAIN last.fields
    /\ last.exc = NoExc
    /\ \E old \in Lookup(last.pre, last.id) :
           \E row \in store :
               /\ row.rowid = old.rowid
               /\ row.name = last.fields.name
               /\ row.name # old.name
               /\ old.calories # last.fields.calories

\* what /health reports of the Gemini service in the current configuration
HealthGeminiService == health_check(gemini_api_key, FALSE).gemini_service

\* C27: the gemini_service status of /health agrees with the availability of
\* a manager built in the same configuration: "available" means
\* is_nutrition_service_available() is true, "unavailable" means it is false
C27_HealthAgreesWithManager ==
    manager.built =>
        /\ HealthGeminiService = "available"
               => is_nutrition_service_available(manager.nutrition_service)
        /\ HealthGeminiService = "unavailable"
               => ~is_nutrition_service_available(manager.nutrition_service)

\* the sample records in the store
SampleRecords == {r \in store : \E i \in 1..Len(sample_meals) : r.name = sample_meals[i].name}

\* the run of worker p is over
SeedingOver(p) == inflight[p].pc = "done" /\ inflight[p].exc = NoExc

\* C28: startup seeding is idempotent: a run that finds the store empty adds
\* exactly the four sample meals, a run that finds a record adds nothing, and
\* any number of runs, one after another or two at a time, never leave more
\* than four sample records
C28_SeedingIdempotent ==
    /\ \A p \in Procs :
           SeedingOver(p) =>
               inflight[p].n = (IF inflight[p].loaded = <<>> THEN Len(sample_meals) ELSE 0)
    /\ Cardinality(SampleRecords) <= Len(sample_meals)

====
